---- MODULE Spec2Model ----
(***************************************************************************)
(* A model of the Volvo bluff-body LES plotting helpers:                   *)
(*   plotting/common.py  (dimensions, dataset, PlotStyles, UserOptions,    *)
(*                        get_default_parsing_args)                        *)
(*   plotting/Experimental/axial_deficit_plots.py  (the plot driver)       *)
(*                                                                         *)
(* Numbers are exact rationals <<n, d>> in lowest terms with d > 0; the    *)
(* IEEE rounding of the float64 arrays is not modelled.  Strings that the  *)
(* code inspects (column names, dataset names, attribute names) are        *)
(* sequences of one-character strings.  Paths are sequences of components  *)
(* with an absolute/relative flag.                                         *)
(***************************************************************************)
EXTENDS Integers, Sequences, FiniteSets, TLC

VARIABLES
    \* ---- dataset object -------------------------------------------------
    ds_state,        \* "none" | "ok" | "AssertionError"  (constructor outcome)
    columns,         \* dataset.columns
    data,            \* dataset.data : [shape |-> <<rows, cols>>, a |-> rows of values]
    name,            \* dataset.name
    is_simulation,   \* dataset.is_simulation
    ds_last,         \* the last dataset call and its outcome
    hist,            \* data before and after the uninterrupted run of normalize calls
    ncalls,          \* [normalize |-> n, setitem |-> n] calls made so far
    \* ---- UserOptions object ---------------------------------------------
    uo_state,        \* "none" | "ok"
    uo,              \* the attributes of the UserOptions object
    fs,              \* the directories that exist in the file system
    uo_last,         \* the last UserOptions call and its outcome
    uo_calls,        \* [get_cases |-> n, make_dir |-> n] calls made after construction
    \* ---- axial_deficit_plots.py -----------------------------------------
    drv_pc,          \* "idle" | "start" | "parsed" | "done" | "SystemExit" | "AttributeError"
    args,            \* the argparse Namespace
    drv_log,         \* the loads / normalize / savefig events of the run, in order
    saved            \* the files written by plt.savefig

ds_vars  == <<ds_state, columns, data, name, is_simulation, ds_last, hist, ncalls>>
uo_vars  == <<uo_state, uo, fs, uo_last, uo_calls>>
drv_vars == <<drv_pc, args, drv_log, saved>>
vars     == <<ds_vars, uo_vars, drv_vars>>

\* Python's None
None == [none |-> TRUE]

(***************************************************************************)
(* Bounds of the model.                                                    *)
(***************************************************************************)
MaxCols      == 2    \* longest column list / widest array constructed
MaxRows      == 1    \* most rows (points) of an array
MaxNormalize == 2    \* normalize calls per dataset
MaxSetitem   == 1    \* __setitem__ calls per dataset

(***************************************************************************)
(* Strings as sequences of characters.                                     *)
(***************************************************************************)
S_y      == <<"y">>
S_z      == <<"z">>
S_Ux     == <<"U", "x">>
S_Uy     == <<"U", "y">>
S_Uz     == <<"U", "z">>
S_p      == <<"p">>
S_fluct  == <<"f", "l", "u", "c", "t">>
S_offset == <<"_", "o", "f", "f", "s", "e", "t">>
S_flip   == <<"_", "f", "l", "i", "p">>

\* Python's  `sub in s`  for strings
Contains(s, sub) ==
    \E i \in 0..(Len(s) - Len(sub)) : SubSeq(s, i + 1, i + Len(sub)) = sub

(***************************************************************************)
(* Exact rational arithmetic.                                              *)
(***************************************************************************)
Abs(n) == IF n < 0 THEN -n ELSE n

RECURSIVE GCD(_, _)
GCD(a, b) == IF b = 0 THEN a ELSE GCD(b, a % b)

Rat(n, d) ==
    LET g == GCD(Abs(n), Abs(d))
        s == IF d < 0 THEN -1 ELSE 1
    IN  <<(s * n) \div g, (s * d) \div g>>

RSub(a, b) == Rat(a[1] * b[2] - b[1] * a[2], a[2] * b[2])
RMul(a, b) == Rat(a[1] * b[1], a[2] * b[2])
RDiv(a, b) == Rat(a[1] * b[2], a[2] * b[1])

(***************************************************************************)
(* class dimensions                                                        *)
(***************************************************************************)
dims_D              == Rat(40, 1000)
dims_height         == RMul(Rat(3, 1), dims_D)
dims_width          == RMul(Rat(2, 1), dims_D)
dims_Ubulk(reacting) == IF ~reacting THEN Rat(166, 10) ELSE Rat(176, 10)
dims_trailing_edge  == Rat(-200, 1000)
dims_z_offset       == dims_trailing_edge
dims_y_offset       == RDiv(dims_height, Rat(2, 1))
dims_z_flip         == Rat(-1, 1)

\* the attribute dictionary of a dimensions object
dimensions(reacting) ==
    (<<"D">> :> dims_D)
    @@ (<<"h", "e", "i", "g", "h", "t">> :> dims_height)
    @@ (<<"w", "i", "d", "t", "h">> :> dims_width)
    @@ (<<"U", "b", "u", "l", "k">> :> dims_Ubulk(reacting))
    @@ (<<"t", "r", "a", "i", "l", "i", "n", "g", "_", "e", "d", "g", "e">> :> dims_trailing_edge)
    @@ (S_z \o S_offset :> dims_z_offset)
    @@ (S_y \o S_offset :> dims_y_offset)
    @@ (S_z \o S_flip :> dims_z_flip)

\* Python's  getattr(obj, attr, default)
getattr(obj, attr, default) == IF attr \in DOMAIN obj THEN obj[attr] ELSE default

(***************************************************************************)
(* class dataset                                                           *)
(***************************************************************************)
\* variant: the offset is subtracted after the flip instead of before it
NormalizeEntry_FlipFirst(col, v, dsname, dims) ==
    IF col \in {S_y, S_z}
    THEN LET offset == getattr(dims, col \o S_offset, Rat(0, 1))
             flip   == getattr(dims, col \o S_flip, Rat(1, 1))
         IN  RDiv(RSub(RMul(v, flip), offset), dims[<<"D">>])
    ELSE IF col \in {S_Ux, S_Uy, S_Uz}
    THEN LET axis    == <<col[Len(col)]>>
             flip    == getattr(dims, axis \o S_flip, Rat(1, 1))
             flipped == IF ~Contains(dsname, S_fluct) THEN RMul(v, flip) ELSE v
             Ubulk   == dims[<<"U", "b", "u", "l", "k">>]
         IN  RDiv(flipped, Ubulk)
    ELSE v

\* variant: velocities are flipped whatever the dataset name
NormalizeEntry_AlwaysFlip(col, v, dsname, dims) ==
    IF col \in {S_y, S_z}
    THEN LET offset == getattr(dims, col \o S_offset, Rat(0, 1))
             flip   == getattr(dims, col \o S_flip, Rat(1, 1))
         IN  RDiv(RMul(RSub(v, offset), flip), dims[<<"D">>])
    ELSE IF col \in {S_Ux, S_Uy, S_Uz}
    THEN LET axis    == <<col[Len(col)]>>
             flip    == getattr(dims, axis \o S_flip, Rat(1, 1))
             Ubulk   == dims[<<"U", "b", "u", "l", "k">>]
         IN  RDiv(RMul(v, flip), Ubulk)
    ELSE v

\* variant: every column that is not y or z is treated as a velocity
NormalizeEntry_ElseVelocity(col, v, dsname, dims) ==
    IF col \in {S_y, S_z}
    THEN LET offset == getattr(dims, col \o S_offset, Rat(0, 1))
             flip   == getattr(dims, col \o S_flip, Rat(1, 1))
         IN  RDiv(RMul(RSub(v, offset), flip), dims[<<"D">>])
    ELSE LET axis    == <<col[Len(col)]>>
             flip    == getattr(dims, axis \o S_flip, Rat(1, 1))
             flipped == IF ~Contains(dsname, S_fluct) THEN RMul(v, flip) ELSE v
             Ubulk   == dims[<<"U", "b", "u", "l", "k">>]
         IN  RDiv(flipped, Ubulk)

\* variant: the final division by D / Ubulk is left out
NormalizeEntry_NoScale(col, v, dsname, dims) ==
    IF col \in {S_y, S_z}
    THEN LET offset == getattr(dims, col \o S_offset, Rat(0, 1))
             flip   == getattr(dims, col \o S_flip, Rat(1, 1))
         IN  RMul(RSub(v, offset), flip)
    ELSE IF col \in {S_Ux, S_Uy, S_Uz}
    THEN LET axis    == <<col[Len(col)]>>
             flip    == getattr(dims, axis \o S_flip, Rat(1, 1))
         IN  IF ~Contains(dsname, S_fluct) THEN RMul(v, flip) ELSE v
    ELSE v

\* what normalize does to one entry v of the column named col
NormalizeEntry(col, v, dsname, dims) ==
    IF col \in {S_y, S_z}
    THEN LET offset == getattr(dims, col \o S_offset, Rat(0, 1))
             flip   == getattr(dims, col \o S_flip, Rat(1, 1))
         IN  RDiv(RMul(RSub(v, offset), flip), dims[<<"D">>])
    ELSE IF col \in {S_Ux, S_Uy, S_Uz}
    THEN LET axis    == <<col[Len(col)]>>
             flip    == getattr(dims, axis \o S_flip, Rat(1, 1))
             flipped == IF ~Contains(dsname, S_fluct) THEN RMul(v, flip) ELSE v
             Ubulk   == dims[<<"U", "b", "u", "l", "k">>]
         IN  RDiv(flipped, Ubulk)
    ELSE v

\* the loop of normalize over the columns, applied to the whole array
NormalizeData(cols, d, dsname, reacting) ==
    LET dims == dimensions(reacting)
    IN  [d EXCEPT !.a = [r \in 1..d.shape[1] |->
                           [i \in 1..d.shape[2] |->
                               IF i <= Len(cols)
                               THEN NormalizeEntry(cols[i], d.a[r][i], dsname, dims)
                               ELSE d.a[r][i]]]]

\* ---- the inputs the dataset operations are exercised with ----------------
ColNames == {S_y, S_z, S_Ux, S_Uy, S_Uz, S_p}
\* column headers are distinct (a table has one column per header)
ColumnLists ==
    {cols \in UNION {[1..n -> ColNames] : n \in 0..MaxCols} :
        \A i, j \in 1..Len(cols) : cols[i] = cols[j] => i = j}

\* raw values of the 2-D float arrays: 0 and 0.1 (100 mm, or 0.1 m/s)
RawVals == {Rat(0, 1), Rat(100, 1000)}
ArraysOver(vals) ==
    UNION {[shape : {<<r, c>>}, a : [1..r -> [1..c -> vals]]] :
              r \in 1..MaxRows, c \in 0..MaxCols}
Arrays == ArraysOver(RawVals)

\* the smaller inputs the element-access operations are exercised with
AccessHeader == <<S_y, S_p, S_Uz, S_z, S_Ux, S_Uy>>
AccessColumnLists == {SubSeq(AccessHeader, 1, n) : n \in 0..MaxCols}
AccessVals == {Rat(0, 1), Rat(100, 1000)}
AccessArrays == ArraysOver({Rat(100, 1000)})

\* dataset names: a mean quantity and a fluctuation quantity
DsNames == {<<"U", "m", "e", "a", "n">>, <<"U", "f", "l", "u", "c", "t">>}
AccessDsNames == {<<"U", "m", "e", "a", "n">>}

\* index keys (0-based): a row <<r>> or an entry <<r, c>>
Keys == {<<r>> : r \in 0..MaxRows} \cup {<<r, c>> : r \in 0..MaxRows, c \in 0..MaxCols}

NoCall == [op |-> "none", outcome |-> "none", reacting |-> FALSE, key |-> <<>>,
           pre |-> None, ret |-> None]

Snapshot == [columns |-> columns, data |-> data, name |-> name,
             is_simulation |-> is_simulation]

KeyInRange(d, key) ==
    /\ key[1] < d.shape[1]
    /\ Len(key) = 2 => key[2] < d.shape[2]

\* numpy's  data[key]
ArrayGet(d, key) ==
    IF Len(key) = 1 THEN d.a[key[1] + 1] ELSE d.a[key[1] + 1][key[2] + 1]

\* numpy's  data[key] = value  for a scalar value (broadcast over a row)
ArraySet(d, key, value) ==
    IF Len(key) = 1
    THEN [d EXCEPT !.a[key[1] + 1] = [i \in 1..d.shape[2] |-> value]]
    ELSE [d EXCEPT !.a[key[1] + 1][key[2] + 1] = value]

\* variant: the constructor without its assertion
dataset_init_NoAssert(cols, d, nm, sim) ==
    /\ ds_state = "none"
    /\ columns' = cols
    /\ data' = d
    /\ name' = nm
    /\ is_simulation' = sim
    /\ ds_state' = "ok"
    /\ hist' = <<d>>
    /\ ds_last' = [NoCall EXCEPT !.op = "__init__", !.outcome = "ok"]
    /\ UNCHANGED <<ncalls, uo_vars, drv_vars>>

\* dataset.__init__
dataset_init(cols, d, nm, sim) ==
    /\ ds_state = "none"
    /\ columns' = cols
    /\ data' = d
    /\ name' = nm
    /\ is_simulation' = sim
    /\ ds_state' = IF Len(cols) = d.shape[2] THEN "ok" ELSE "AssertionError"
    /\ hist' = <<d>>
    /\ ds_last' = [NoCall EXCEPT !.op = "__init__",
                                 !.outcome = IF Len(cols) = d.shape[2]
                                             THEN "ok" ELSE "AssertionError"]
    /\ UNCHANGED <<ncalls, uo_vars, drv_vars>>

\* dataset.__getitem__
dataset_getitem(key) ==
    /\ ds_state = "ok"
    /\ ds_last' = IF KeyInRange(data, key)
                  THEN [NoCall EXCEPT !.op = "__getitem__", !.outcome = "ok", !.key = key,
                                      !.ret = ArrayGet(data, key)]
                  ELSE [NoCall EXCEPT !.op = "__getitem__", !.outcome = "IndexError",
                                      !.key = key]
    /\ UNCHANGED <<ds_state, columns, data, name, is_simulation, hist, ncalls,
                   uo_vars, drv_vars>>

\* dataset.__setitem__
dataset_setitem(key, value) ==
    /\ ds_state = "ok"
    /\ ncalls.setitem < MaxSetitem
    /\ ncalls' = [ncalls EXCEPT !.setitem = @ + 1]
    /\ IF KeyInRange(data, key)
       THEN /\ data' = ArraySet(data, key, value)
            /\ hist' = <<data'>>
            /\ ds_last' = [NoCall EXCEPT !.op = "__setitem__", !.outcome = "ok",
                                         !.key = key]
       ELSE /\ ds_last' = [NoCall EXCEPT !.op = "__setitem__", !.outcome = "IndexError",
                                         !.key = key]
            /\ UNCHANGED <<data, hist>>
    /\ UNCHANGED <<ds_state, columns, name, is_simulation, uo_vars, drv_vars>>

\* variant: normalize without its assertion
dataset_normalize_NoAssert(reacting) ==
    /\ ds_state = "ok"
    /\ ncalls.normalize < MaxNormalize
    /\ ncalls' = [ncalls EXCEPT !.normalize = @ + 1]
    /\ data' = NormalizeData(columns, data, name, reacting)
    /\ hist' = Append(hist, data')
    /\ ds_last' = [NoCall EXCEPT !.op = "normalize", !.outcome = "ok",
                                 !.reacting = reacting, !.pre = Snapshot]
    /\ UNCHANGED <<ds_state, columns, name, is_simulation, uo_vars, drv_vars>>

\* dataset.normalize
dataset_normalize(reacting) ==
    /\ ds_state = "ok"
    /\ ncalls.normalize < MaxNormalize
    /\ ncalls' = [ncalls EXCEPT !.normalize = @ + 1]
    /\ IF ~is_simulation
       THEN /\ ds_last' = [NoCall EXCEPT !.op = "normalize", !.outcome = "AssertionError",
                                         !.reacting = reacting, !.pre = Snapshot]
            /\ UNCHANGED <<data, hist>>
       ELSE /\ data' = NormalizeData(columns, data, name, reacting)
            /\ hist' = Append(hist, data')
            /\ ds_last' = [NoCall EXCEPT !.op = "normalize", !.outcome = "ok",
                                         !.reacting = reacting, !.pre = Snapshot]
    /\ UNCHANGED <<ds_state, columns, name, is_simulation, uo_vars, drv_vars>>

\* no dataset / UserOptions / driver activity yet
NoUoCall == [op |-> "none", outcome |-> "none", arg |-> None, ret |-> None, pre |-> None]

DsIdle ==
    /\ ds_state = "none" /\ columns = <<>> /\ data = None /\ name = None
    /\ is_simulation = FALSE /\ ds_last = NoCall /\ hist = <<>>
    /\ ncalls = [normalize |-> 0, setitem |-> 0]
UoIdle ==
    /\ uo_state = "none" /\ uo = None /\ fs = {} /\ uo_last = NoUoCall
    /\ uo_calls = [get_cases |-> 0, make_dir |-> 0]
DrvIdle ==
    /\ drv_pc = "idle" /\ args = None /\ drv_log = <<>> /\ saved = <<>>

Init == DsIdle /\ UoIdle /\ DrvIdle

\* a dataset is constructed and normalized
Construct ==
    /\ ds_state = "none"
    /\ \E cols \in ColumnLists, d \in Arrays, nm \in DsNames, sim \in BOOLEAN :
          dataset_init(cols, d, nm, sim)

Normalize ==
    /\ ds_state = "ok"
    /\ \E reacting \in BOOLEAN : dataset_normalize(reacting)

Next == Construct \/ Normalize

Spec == Init /\ [][Next]_vars

\* a dataset is constructed, normalized, read and written through its index operators
ConstructAccess ==
    /\ ds_state = "none"
    /\ \E cols \in AccessColumnLists, d \in AccessArrays, nm \in AccessDsNames,
          sim \in BOOLEAN :
          dataset_init(cols, d, nm, sim)

GetItem ==
    /\ ds_state = "ok"
    /\ \E key \in Keys : dataset_getitem(key)

SetItem ==
    /\ ds_state = "ok"
    /\ \E key \in Keys, value \in AccessVals : dataset_setitem(key, value)

NextAccess == ConstructAccess \/ GetItem \/ SetItem \/ Normalize

SpecAccess == Init /\ [][NextAccess]_vars

(***************************************************************************)
(* Paths (os.path).  A path is its list of components and whether it       *)
(* starts at the root; '' is the relative path without components.         *)
(***************************************************************************)
AbsP(parts) == [abs |-> TRUE, parts |-> parts]
RelP(parts) == [abs |-> FALSE, parts |-> parts]
EmptyPath   == RelP(<<>>)

\* the working directory of the process and  script_dir
cwd        == AbsP(<<"home">>)
script_dir == AbsP(<<"repo", "plotting">>)
ppardir    == RelP(<<"..">>)

\* os.path.join(a, b): an absolute b discards a
pjoin(a, b) == IF b.abs THEN b ELSE [abs |-> a.abs, parts |-> a.parts \o b.parts]

\* os.path.normpath on the components:  '.' is dropped, '..' removes its parent
RECURSIVE NormParts(_, _, _)
NormParts(parts, acc, isabs) ==
    IF parts = <<>> THEN acc
    ELSE LET h == Head(parts)
             t == Tail(parts)
         IN  IF h = "." THEN NormParts(t, acc, isabs)
             ELSE IF h = ".."
             THEN IF acc # <<>> /\ acc[Len(acc)] # ".."
                  THEN NormParts(t, SubSeq(acc, 1, Len(acc) - 1), isabs)
                  ELSE IF isabs THEN NormParts(t, acc, isabs)
                  ELSE NormParts(t, Append(acc, ".."), isabs)
             ELSE NormParts(t, Append(acc, h), isabs)

\* os.path.abspath
abspath(p) ==
    LET q == IF p.abs THEN p ELSE pjoin(cwd, p)
    IN  AbsP(NormParts(q.parts, <<>>, TRUE))

\* os.path.isdir / os.path.exists against the directories of the file system
pisdir(dirs, p) == abspath(p) \in dirs

\* os.makedirs: the directory and every missing ancestor
makedirs(dirs, p) ==
    LET q == abspath(p)
    IN  dirs \cup {AbsP(SubSeq(q.parts, 1, n)) : n \in 1..Len(q.parts)}

(***************************************************************************)
(* class PlotStyles, class UserOptions                                     *)
(***************************************************************************)
MaxCases    == 2    \* most case names given to UserOptions
MaxGetCases == 2    \* get_cases calls after construction
MaxMakeDir  == 1    \* make_dir calls

PlotStyles(cases, grey) == [num_colors |-> Len(cases) + 1, grey |-> grey]

\* PlotStyles.color_map: the colour map name and its number of entries
color_map(style) ==
    [cmap |-> IF style.grey THEN "Greys" ELSE "inferno", lut |-> style.num_colors + 1]

react_str(reacting) == IF reacting THEN "reacting" ELSE "non-reacting"

\* variant: get_cases that picks the directory of the other flow type
get_cases_Swapped(self) ==
    LET base0 == IF self.base_path # None /\ self.base_path # EmptyPath
                 THEN abspath(self.base_path)
                 ELSE abspath(pjoin(script_dir, ppardir))
        base1 == pjoin(base0, RelP(<<react_str(~self.reacting)>>))
    IN  [self |-> [self EXCEPT !.base_path = base1],
         ret  |-> [i \in 1..Len(self.cases) |-> pjoin(base1, self.cases[i])]]

\* UserOptions.get_cases: the object as it leaves it, and the returned list
get_cases(self) ==
    LET base0 == IF self.base_path # None /\ self.base_path # EmptyPath
                 THEN abspath(self.base_path)
                 ELSE abspath(pjoin(script_dir, ppardir))
        base1 == pjoin(base0, RelP(<<react_str(self.reacting)>>))
    IN  [self |-> [self EXCEPT !.base_path = base1],
         ret  |-> [i \in 1..Len(self.cases) |-> pjoin(base1, self.cases[i])]]

\* variant: the graph directory is looked up without the postProcessing level
simulation_path_NoPostProcessing(self, case, graph_name) ==
    abspath(pjoin(pjoin(self.base_path, case), graph_name))

\* the path get_simulation_path computes
simulation_path(self, case, graph_name) ==
    abspath(pjoin(pjoin(pjoin(self.base_path, case), RelP(<<"postProcessing">>)),
                  graph_name))

\* UserOptions.__init__
UserOptions_init(cases, reacting, t_start, t_end, base_path, out_path, velocity_component) ==
    /\ uo_state = "none"
    /\ LET self0 == [cases |-> cases, reacting |-> reacting, t_start |-> t_start,
                     t_end |-> t_end, base_path |-> base_path, out_path |-> out_path,
                     velocity_component |->
                         IF velocity_component = "both" THEN <<"z", "y">>
                         ELSE <<velocity_component>>,
                     style |-> None]
           gc    == get_cases(self0)
           self1 == [gc.self EXCEPT !.cases = gc.ret]
           self2 == IF self1.out_path = None
                    THEN [self1 EXCEPT !.out_path = script_dir] ELSE self1
       IN  /\ uo' = [self2 EXCEPT !.style = PlotStyles(self2.cases, FALSE)]
           /\ uo_last' = [NoUoCall EXCEPT !.op = "__init__", !.outcome = "ok",
                             !.arg = [cases |-> cases, reacting |-> reacting,
                                      base_path |-> base_path, out_path |-> out_path]]
    /\ uo_state' = "ok"
    /\ UNCHANGED <<fs, uo_calls, ds_vars, drv_vars>>

\* UserOptions.ncases
UserOptions_ncases ==
    /\ uo_state = "ok"
    /\ uo_last' = [NoUoCall EXCEPT !.op = "ncases", !.outcome = "ok",
                                  !.ret = Len(uo.cases), !.pre = uo]
    /\ UNCHANGED <<uo_state, uo, fs, uo_calls, ds_vars, drv_vars>>

\* UserOptions.get_simulation_path
UserOptions_get_simulation_path(case, graph_name) ==
    /\ uo_state = "ok"
    /\ LET path == simulation_path(uo, case, graph_name)
       IN  uo_last' =
             IF ~pisdir(fs, path)
             THEN [NoUoCall EXCEPT !.op = "get_simulation_path", !.outcome = "Exception",
                      !.arg = <<case, graph_name>>, !.pre = uo,
                      !.ret = [graph |-> graph_name, flow |-> react_str(uo.reacting),
                               case |-> case, path |-> path]]
             ELSE [NoUoCall EXCEPT !.op = "get_simulation_path", !.outcome = "ok",
                      !.arg = <<case, graph_name>>, !.pre = uo, !.ret = path]
    /\ UNCHANGED <<uo_state, uo, fs, uo_calls, ds_vars, drv_vars>>

\* UserOptions.make_dir
UserOptions_make_dir(case) ==
    /\ uo_state = "ok"
    /\ uo_calls.make_dir < MaxMakeDir
    /\ uo_calls' = [uo_calls EXCEPT !.make_dir = @ + 1]
    /\ fs' = IF ~pisdir(fs, pjoin(uo.out_path, case))
             THEN makedirs(fs, pjoin(uo.out_path, case)) ELSE fs
    /\ uo_last' = [NoUoCall EXCEPT !.op = "make_dir", !.outcome = "ok",
                                  !.arg = case, !.pre = uo]
    /\ UNCHANGED <<uo_state, uo, ds_vars, drv_vars>>

\* UserOptions.get_cases, called on the constructed object
UserOptions_get_cases ==
    /\ uo_state = "ok"
    /\ uo_calls.get_cases < MaxGetCases
    /\ uo_calls' = [uo_calls EXCEPT !.get_cases = @ + 1]
    /\ uo' = get_cases(uo).self
    /\ uo_last' = [NoUoCall EXCEPT !.op = "get_cases", !.outcome = "ok",
                                  !.ret = get_cases(uo).ret, !.pre = uo]
    /\ UNCHANGED <<uo_state, fs, ds_vars, drv_vars>>

\* UserOptions.color
UserOptions_color(caseno, exp) ==
    /\ uo_state = "ok"
    /\ uo_last' = [NoUoCall EXCEPT !.op = "color", !.outcome = "ok",
                      !.arg = <<caseno, exp>>, !.pre = uo,
                      !.ret = [map |-> color_map(uo.style),
                               index |-> IF ~exp THEN caseno + 1 ELSE 0]]
    /\ UNCHANGED <<uo_state, uo, fs, uo_calls, ds_vars, drv_vars>>

\* ---- the inputs the UserOptions operations are exercised with -------------
CaseNames   == {RelP(<<"c1">>), AbsP(<<"runs", "c3">>)}
CaseLists   == UNION {[1..n -> CaseNames] : n \in 0..MaxCases}
BasePaths   == {None, EmptyPath, AbsP(<<"data">>), RelP(<<"work", "..", "sims">>)}
OutPaths    == {None, AbsP(<<"out">>)}
GraphNames  == {RelP(<<"g">>), AbsP(<<"tmp", "g">>)}
Components  == {"both", "z"}

\* file systems: an empty one, and one holding graph directories of both case names
GraphDirs ==
    {AbsP(<<"data", "reacting", "c1", "postProcessing", "g">>),
     AbsP(<<"runs", "c3", "postProcessing", "g">>),
     AbsP(<<"tmp", "g">>)}
FileSystems == {{}, UNION {makedirs({}, d) : d \in GraphDirs}}

InitOptions ==
    /\ DsIdle /\ DrvIdle
    /\ uo_state = "none" /\ uo = None /\ uo_last = NoUoCall
    /\ uo_calls = [get_cases |-> 0, make_dir |-> 0]
    /\ fs \in FileSystems

ConstructOptions ==
    /\ uo_state = "none"
    /\ \E cases \in CaseLists, reacting \in BOOLEAN, base_path \in BasePaths,
          out_path \in OutPaths, vc \in Components :
          UserOptions_init(cases, reacting, 0, -1, base_path, out_path, vc)

NCases == UserOptions_ncases

GetSimulationPath ==
    /\ uo_state = "ok"
    /\ \E case \in CaseNames \cup {uo.cases[i] : i \in 1..Len(uo.cases)},
          graph_name \in GraphNames :
          UserOptions_get_simulation_path(case, graph_name)

MakeDir ==
    /\ uo_state = "ok"
    /\ \E case \in CaseNames : UserOptions_make_dir(case)

GetCases == UserOptions_get_cases

Color ==
    /\ uo_state = "ok"
    /\ \E caseno \in 0..(Len(uo.cases) - 1), exp \in BOOLEAN : UserOptions_color(caseno, exp)

NextOptions ==
    ConstructOptions \/ NCases \/ GetSimulationPath \/ MakeDir \/ GetCases \/ Color

SpecOptions == InitOptions /\ [][NextOptions]_vars

(***************************************************************************)
(* get_default_parsing_args and Experimental/axial_deficit_plots.py        *)
(***************************************************************************)
MaxCaseList == 2    \* most case names after -c on the command line

\* the Namespace parse_args builds from the values given to each option on the command
\* line; an option that is absent (no values, or None) takes the default of its
\* add_argument
parse_args(argv) ==
    [reacting   |-> IF argv.flag = "-r" THEN TRUE ELSE FALSE,
     caselist   |-> argv.c,
     start_time |-> IF argv.t_start = <<>> THEN 0 ELSE argv.t_start[1],
     end_time   |-> IF argv.t_end = <<>> THEN -1 ELSE argv.t_end[1],
     base_path  |-> argv.p,
     out_path   |-> argv.o]

Points == <<"0point95", "1point53", "3point75", "point375", "9point4">>

\* the calls one iteration of the loop of plot makes, in order
plot_point(case, reacting, t_start, t_end, point) ==
    LET graph == <<"axialDeficitPlot_", point>>
    IN  << [call |-> "read_experimental_data", name |-> graph],
           [call |-> "read_simulation_data", name |-> graph],
           [call |-> "normalize", name |-> graph],
           [call |-> "savefig", name |-> <<"axial_deficit_plot_", point, ".pdf">>] >>

\* plot: the calls of the five iterations
RECURSIVE plot(_, _, _, _, _)
plot(case, reacting, t_start, t_end, n) ==
    IF n = 0 THEN <<>>
    ELSE plot(case, reacting, t_start, t_end, n - 1)
         \o plot_point(case, reacting, t_start, t_end, Points[n])

\* the files a sequence of calls saves, in order
RECURSIVE SavedBy(_)
SavedBy(log) ==
    IF log = <<>> THEN <<>>
    ELSE IF Head(log).call = "savefig" THEN <<Head(log).name>> \o SavedBy(Tail(log))
    ELSE SavedBy(Tail(log))

\* parser.parse_args(): -c is required, the parser exits when it is missing
drv_parse(argv) ==
    /\ drv_pc = "start"
    /\ IF argv.c = <<>>
       THEN drv_pc' = "SystemExit" /\ UNCHANGED args
       ELSE drv_pc' = "parsed" /\ args' = parse_args(argv)
    /\ UNCHANGED <<drv_log, saved, ds_vars, uo_vars>>

\* plot(args.case, args.reacting, args.start_time, args.end_time)
drv_main ==
    /\ drv_pc = "parsed"
    /\ IF "case" \in DOMAIN args
       THEN /\ drv_log' = plot(args["case"], args.reacting, args.start_time,
                               args.end_time, Len(Points))
            /\ saved' = SavedBy(drv_log')
            /\ drv_pc' = "done"
       ELSE /\ drv_pc' = "AttributeError"
            /\ UNCHANGED <<drv_log, saved>>
    /\ UNCHANGED <<args, ds_vars, uo_vars>>

\* ---- the command lines the driver is run with ---------------------------
CliCases == {<<"c1">>, <<"c2">>}
CommandLines ==
    [flag    : {"-r", "-n", "none"},
     c       : UNION {[1..n -> CliCases] : n \in 0..MaxCaseList},
     t_start : {<<>>, <<1>>},
     t_end   : {<<>>, <<2>>},
     p       : {None, AbsP(<<"data">>)},
     o       : {None, AbsP(<<"out">>)}]

InitDriver ==
    /\ DsIdle /\ UoIdle
    /\ drv_pc = "start" /\ args = None /\ drv_log = <<>> /\ saved = <<>>

ParseArgs ==
    /\ drv_pc = "start"
    /\ \E argv \in CommandLines : drv_parse(argv)

Main == drv_main

NextDriver == ParseArgs \/ Main

SpecDriver == InitDriver /\ [][NextDriver]_vars

(***************************************************************************)
(* Properties of dataset.                                                  *)
(***************************************************************************)
NormalizeCalled == ds_last.op = "normalize"
NormalizeDone   == ds_last.op = "normalize" /\ ds_last.outcome = "ok"
Rows            == 1..data.shape[1]
ColIdx          == 1..data.shape[2]
Before(r, i)    == ds_last.pre.data.a[r][i]
After(r, i)     == data.a[r][i]

\* res = (v - o) * f / D  over the rationals, f an integer sign, by cross-multiplication
IsShiftFlipScale(res, v, o, f, D) ==
    res[1] * (v[2] * o[2] * D[1]) = res[2] * ((v[1] * o[2] - o[1] * v[2]) * f * D[2])

\* res = v * f / U  over the rationals, by cross-multiplication
IsFlipScale(res, v, f, U) ==
    res[1] * (v[2] * U[1]) = res[2] * (v[1] * f * U[2])

\* C1: normalize on a dataset constructed with is_simulation = false fails with an
\* assertion, for either reacting flag, and leaves every entry of data unchanged
C1_NormalizeExperimentalFails ==
    (NormalizeCalled /\ ~ds_last.pre.is_simulation) =>
        /\ ds_last.outcome = "AssertionError"
        /\ data = ds_last.pre.data

C1_Witness ==
    /\ NormalizeCalled /\ ~is_simulation /\ ds_last.reacting
    /\ ds_last.outcome = "AssertionError"
    /\ \E i \in ColIdx : columns[i] = S_y /\ After(1, i) = <<1, 10>>

\* the Dimensions values in millimetres, as the documentation states them
Offset_mm(col) == IF col = S_y THEN 60 ELSE -200
Flip_of(col)   == IF col = S_z THEN -1 ELSE 1
D_mm           == 40

\* C2 (as amended): normalize maps every value v of a y or z column of a simulation
\* dataset to (v - o) * f / D with o = 60 mm, f = 1 for y and o = -200 mm, f = -1
\* for z, D = 40 mm; a y value of 100 mm becomes 1
C2_SpatialColumns ==
    NormalizeDone =>
        \A r \in Rows, i \in ColIdx :
            columns[i] \in {S_y, S_z} =>
                /\ IsShiftFlipScale(After(r, i), Before(r, i),
                                    <<Offset_mm(columns[i]), 1000>>,
                                    Flip_of(columns[i]), <<D_mm, 1000>>)
                /\ (columns[i] = S_y /\ Before(r, i) = <<1, 10>>) => After(r, i) = <<1, 1>>

C2_Witness ==
    /\ NormalizeDone
    /\ \E i, j \in ColIdx :
          /\ columns[i] = S_y /\ Before(1, i) = <<1, 10>> /\ After(1, i) = <<1, 1>>
          /\ columns[j] = S_z /\ Before(1, j) = <<1, 10>> /\ After(1, j) = <<-15, 2>>

\* C2 as originally stated: the formula holds and the y value 100 (o = 60, f = -1,
\* D = 40) becomes -1
C2_Original ==
    NormalizeDone =>
        \A r \in Rows, i \in ColIdx :
            columns[i] \in {S_y, S_z} =>
                /\ IsShiftFlipScale(After(r, i), Before(r, i),
                                    <<Offset_mm(columns[i]), 1000>>,
                                    Flip_of(columns[i]), <<D_mm, 1000>>)
                /\ (columns[i] = S_y /\ Before(r, i) = <<1, 10>>) => After(r, i) = <<-1, 1>>

\* C3: normalize maps every value v of a Ux, Uy or Uz column of a simulation dataset to
\* v * f / U, U = 17.6 when reacting and 16.6 otherwise, f the flip sign of the axis
\* (-1 for z, 1 for x and y), and to v / U when the dataset name contains 'fluct'
C3_VelocityColumns ==
    NormalizeDone =>
        \A r \in Rows, i \in ColIdx :
            columns[i] \in {S_Ux, S_Uy, S_Uz} =>
                LET U == IF ds_last.reacting THEN <<176, 10>> ELSE <<166, 10>>
                    f == IF Contains(name, S_fluct) THEN 1
                         ELSE IF columns[i] = S_Uz THEN -1 ELSE 1
                IN  IsFlipScale(After(r, i), Before(r, i), f, U)

C3_Witness ==
    /\ NormalizeDone /\ ds_last.reacting /\ ~Contains(name, S_fluct)
    /\ \E i \in ColIdx :
          columns[i] = S_Uz /\ Before(1, i) = <<1, 10>> /\ After(1, i) = <<-1, 176>>

\* C4: normalize on a simulation dataset leaves every value of every column other than
\* y, z, Ux, Uy, Uz unchanged, and leaves columns, name and is_simulation unchanged
C4_OtherColumnsUnchanged ==
    NormalizeDone =>
        /\ \A r \in Rows, i \in ColIdx :
              columns[i] \notin {S_y, S_z, S_Ux, S_Uy, S_Uz} => After(r, i) = Before(r, i)
        /\ columns = ds_last.pre.columns
        /\ name = ds_last.pre.name
        /\ is_simulation = ds_last.pre.is_simulation
        /\ data.shape = ds_last.pre.data.shape

C4_Witness ==
    /\ NormalizeDone
    /\ \E i, j \in ColIdx :
          /\ columns[i] = S_p /\ Before(1, i) = <<1, 10>> /\ After(1, i) = <<1, 10>>
          /\ columns[j] = S_Ux /\ After(1, j) # Before(1, j)

FixedPoint(col) ==
    IF col = S_y THEN <<1, 16>> ELSE IF col = S_z THEN <<-5, 26>> ELSE <<0, 1>>

\* C6: normalize is not idempotent: after two calls in a row the data differs from the
\* data after the first call whenever a y, z, Ux, Uy or Uz column holds, after the
\* first call, a value other than the one value the rescaling maps to itself
C6_NotIdempotent ==
    (Len(hist) >= 3 /\
     \E r \in Rows, i \in ColIdx :
        /\ columns[i] \in {S_y, S_z, S_Ux, S_Uy, S_Uz}
        /\ hist[2].a[r][i] # FixedPoint(columns[i]))
    => hist[3] # hist[2]

C6_Witness ==
    /\ Len(hist) = 3 /\ hist[3] # hist[2] /\ hist[2] # hist[1]
    /\ \E i \in ColIdx : columns[i] = S_y

(***************************************************************************)
(* Properties of the plot driver.                                          *)
(***************************************************************************)
\* C7: a run with a valid command line ends having loaded, normalized once and plotted
\* each of the five points in order, with one saved file per point
C7_OnePlotPerPoint ==
    drv_pc \in {"done", "AttributeError"} =>
        /\ Len(saved) = Len(Points)
        /\ \A n \in 1..Len(Points) :
              /\ saved[n] = <<"axial_deficit_plot_", Points[n], ".pdf">>
              /\ drv_log[4 * n - 3].call = "read_experimental_data"
              /\ drv_log[4 * n - 2].call = "read_simulation_data"
              /\ drv_log[4 * n - 1].call = "normalize"
              /\ drv_log[4 * n].call = "savefig"
        /\ Len(drv_log) = 4 * Len(Points)

(***************************************************************************)
(* Properties of UserOptions.                                              *)
(***************************************************************************)
UoCalled(op) == uo_state = "ok" /\ uo_last.op = op

\* the absolute form of the base paths the constructor is given
AbsoluteBase(p) ==
    IF p = AbsP(<<"data">>) THEN AbsP(<<"data">>)
    ELSE IF p = RelP(<<"work", "..", "sims">>) THEN AbsP(<<"home", "sims">>)
    ELSE IF p = EmptyPath THEN AbsP(<<"home">>)
    ELSE AbsP(<<"repo">>)

\* C8 (as amended): the constructor resolves N case names to N paths in the same
\* order; a relative case becomes {absolute base_path}/{reacting|non-reacting}/{case}
\* and an absolute case stays as it is; base_path is the supplied one when it is not
\* empty, and the parent of the script directory otherwise
C8_CasesResolved ==
    UoCalled("__init__") =>
        LET given == uo_last.arg
            base  == IF given.base_path \in {None, EmptyPath}
                     THEN AbsP(<<"repo">>) ELSE AbsoluteBase(given.base_path)
            flow  == IF given.reacting THEN "reacting" ELSE "non-reacting"
        IN  /\ Len(uo.cases) = Len(given.cases)
            /\ \A i \in 1..Len(given.cases) :
                  uo.cases[i] = IF given.cases[i].abs THEN given.cases[i]
                                ELSE AbsP(base.parts \o <<flow>> \o given.cases[i].parts)

C8_Witness ==
    /\ UoCalled("__init__")
    /\ uo_last.arg.reacting /\ uo_last.arg.base_path = RelP(<<"work", "..", "sims">>)
    /\ uo_last.arg.cases = <<AbsP(<<"runs", "c3">>), RelP(<<"c1">>)>>
    /\ uo.cases = <<AbsP(<<"runs", "c3">>), AbsP(<<"home", "sims", "reacting", "c1">>)>>

\* C8 as originally stated: every case, absolute or not, becomes
\* {absolute base_path}/{reacting|non-reacting}/{case}, base_path being the supplied
\* one whenever one is supplied
C8_Original ==
    UoCalled("__init__") =>
        LET given == uo_last.arg
            base  == IF given.base_path = None
                     THEN AbsP(<<"repo">>) ELSE AbsoluteBase(given.base_path)
            flow  == IF given.reacting THEN "reacting" ELSE "non-reacting"
        IN  /\ Len(uo.cases) = Len(given.cases)
            /\ \A i \in 1..Len(given.cases) :
                  uo.cases[i] = AbsP(base.parts \o <<flow>> \o given.cases[i].parts)

\* C9: once constructed, no call of ncases, get_simulation_path, make_dir, get_cases
\* or color changes an attribute of the UserOptions object, and get_cases returns the
\* list of cases again
C9_Immutable ==
    (uo_state = "ok" /\ uo_last.op # "__init__") =>
        /\ uo = uo_last.pre
        /\ uo_last.op = "get_cases" => uo_last.ret = uo_last.pre.cases

\* C10 (as amended): get_simulation_path(case, graph_name) looks at the absolute path
\* of os.path.join(base_path, case, 'postProcessing', graph_name), which is
\* base_path/case/postProcessing/graph_name for relative arguments,
\* case/postProcessing/graph_name for an absolute case and graph_name for an absolute
\* graph_name; it raises an exception naming graph, case and path when that is not an
\* existing directory, returns the path otherwise, and never changes the object
C10_SimulationPath ==
    UoCalled("get_simulation_path") =>
        LET case     == uo_last.arg[1]
            graph    == uo_last.arg[2]
            base     == uo_last.pre.base_path
            expected == IF graph.abs THEN graph
                        ELSE IF case.abs
                        THEN AbsP(case.parts \o <<"postProcessing">> \o graph.parts)
                        ELSE AbsP(base.parts \o case.parts \o <<"postProcessing">>
                                  \o graph.parts)
        IN  /\ uo = uo_last.pre
            /\ uo_last.outcome = IF expected \in fs THEN "ok" ELSE "Exception"
            /\ uo_last.outcome = "ok" => uo_last.ret = expected
            /\ uo_last.outcome = "Exception" =>
                  /\ uo_last.ret.graph = graph
                  /\ uo_last.ret.case = case
                  /\ uo_last.ret.path = expected

C10_Witness ==
    /\ UoCalled("get_simulation_path")
    /\ uo_last.outcome = "ok"
    /\ Len(uo.cases) > 0 /\ uo_last.arg[1] = uo.cases[1]
    /\ uo_last.ret = AbsP(<<"data", "reacting", "c1", "postProcessing", "g">>)

\* C10 as originally stated: the path looked at is always
\* base_path/case/postProcessing/graph_name
C10_Original ==
    UoCalled("get_simulation_path") =>
        LET case     == uo_last.arg[1]
            graph    == uo_last.arg[2]
            base     == uo_last.pre.base_path
            expected == AbsP(base.parts \o case.parts \o <<"postProcessing">>
                             \o graph.parts)
        IN  /\ uo = uo_last.pre
            /\ uo_last.outcome = IF expected \in fs THEN "ok" ELSE "Exception"
            /\ uo_last.outcome = "ok" => uo_last.ret = expected
            /\ uo_last.outcome = "Exception" =>
                  /\ uo_last.ret.graph = graph
                  /\ uo_last.ret.case = case
                  /\ uo_last.ret.path = expected
====
